---- MODULE Spec2Model ----
\* k8s-sa-creator.py: provision a service account with kubectl and render a
\* kubeconfig for it.  The script is one sequential process; the cluster it
\* talks to is the environment.  Text is modelled as sequences of ASCII codes.
EXTENDS Integers, Sequences, FiniteSets, TLC

\* ---------------------------------------------------------------- bounds
\* Longest time (in the clock's units) one external command may take.
MaxCmdDur == 2
\* Number of times the script is invoked against the same cluster.
MaxRuns == 2

\* ------------------------------------------------------ program constants
\* wait_for_token(secret_name, namespace, timeout=30)
Timeout == 30
\* time.sleep(1)
PollInterval == 1

\* ------------------------------------------------------------------- text
NL == 10
Whitespace == {9, 10, 11, 12, 13, 32}

RECURSIVE LStrip(_)
LStrip(s) == IF s # <<>> /\ Head(s) \in Whitespace THEN LStrip(Tail(s)) ELSE s

RECURSIVE RStrip(_)
RStrip(s) == IF s # <<>> /\ s[Len(s)] \in Whitespace
             THEN RStrip(SubSeq(s, 1, Len(s) - 1)) ELSE s

\* str.strip()
Strip(s) == RStrip(LStrip(s))

\* ----------------------------------------------------------------- base64
\* The value of a character of the base64 alphabet (A-Z a-z 0-9 + /).
B64Val(c) == IF c >= 65 /\ c <= 90 THEN c - 65
             ELSE IF c >= 97 /\ c <= 122 THEN c - 97 + 26
             ELSE IF c >= 48 /\ c <= 57 THEN c - 48 + 52
             ELSE IF c = 43 THEN 62 ELSE 63

\* The character of a 6-bit value.
B64Chr(v) == IF v < 26 THEN 65 + v
             ELSE IF v < 52 THEN 97 + (v - 26)
             ELSE IF v < 62 THEN 48 + (v - 52)
             ELSE IF v = 62 THEN 43 ELSE 47

Pad == 61

\* base64.b64encode: three bytes become four characters, the last group is
\* padded with '='.
RECURSIVE B64Encode(_)
B64Encode(b) ==
    IF b = <<>> THEN <<>>
    ELSE IF Len(b) = 1 THEN
        << B64Chr(b[1] \div 4), B64Chr((b[1] % 4) * 16), Pad, Pad >>
    ELSE IF Len(b) = 2 THEN
        << B64Chr(b[1] \div 4),
           B64Chr((b[1] % 4) * 16 + (b[2] \div 16)),
           B64Chr((b[2] % 16) * 4), Pad >>
    ELSE
        << B64Chr(b[1] \div 4),
           B64Chr((b[1] % 4) * 16 + (b[2] \div 16)),
           B64Chr((b[2] % 16) * 4 + (b[3] \div 64)),
           B64Chr(b[3] % 64) >> \o B64Encode(SubSeq(b, 4, Len(b)))

\* base64.b64decode on correctly padded input: four characters become up to
\* three bytes.
RECURSIVE B64Decode(_)
B64Decode(s) ==
    IF Len(s) < 4 THEN <<>>
    ELSE LET v1 == B64Val(s[1])
             v2 == B64Val(s[2])
             v3 == B64Val(s[3])
             v4 == B64Val(s[4])
             rest == B64Decode(SubSeq(s, 5, Len(s)))
         IN IF s[3] = Pad THEN << v1 * 4 + (v2 \div 16) >> \o rest
            ELSE IF s[4] = Pad
                 THEN << v1 * 4 + (v2 \div 16), (v2 % 16) * 16 + (v3 \div 4) >> \o rest
            ELSE << v1 * 4 + (v2 \div 16), (v2 % 16) * 16 + (v3 \div 4),
                    (v3 % 4) * 64 + v4 >> \o rest

\* ------------------------------------------------------------------ utf-8
\* str.encode(): a code point below 128 is one byte, below 2048 two bytes.
RECURSIVE Utf8Encode(_)
Utf8Encode(s) ==
    IF s = <<>> THEN <<>>
    ELSE IF Head(s) < 128 THEN << Head(s) >> \o Utf8Encode(Tail(s))
    ELSE << 192 + (Head(s) \div 64), 128 + (Head(s) % 64) >> \o Utf8Encode(Tail(s))

\* bytes.decode("utf-8") on well-formed input of one- and two-byte forms.
RECURSIVE Utf8Decode(_)
Utf8Decode(b) ==
    IF b = <<>> THEN <<>>
    ELSE IF Head(b) < 128 \/ Len(b) < 2 THEN << Head(b) >> \o Utf8Decode(Tail(b))
    ELSE << (Head(b) - 192) * 64 + (b[2] - 128) >> \o Utf8Decode(SubSeq(b, 3, Len(b)))

\* ---------------------------------------------------------- python values
\* A str or None.
None == [none |-> TRUE, val |-> <<>>]
Str(s) == [none |-> FALSE, val |-> s]
\* Truth value of a str-or-None: None and "" are false.
\* Variant: `is not None` in place of truth.
Truthy_NotNone(x) == ~x.none

Truthy(x) == ~x.none /\ x.val # <<>>

PyInt(n) == [type |-> "int", val |-> n]
PyTuple(t) == [type |-> "tuple", val |-> t]
\* Python's ==: values of different types are never equal.
PyEq(a, b) == a.type = b.type /\ a.val = b.val

\* ------------------------------------------------------ external commands
\* What a finished child process leaves: exit status, stdout, stderr.
Proc(rc, out, err) == [rc |-> rc, out |-> out, err |-> err]

\* execute_command: check=True makes subprocess.run raise CalledProcessError
\* on a non-zero exit; the except clause turns it into a returned tuple.
\* Variant without the except clause: the exception leaves the function.
ExecuteCommand_NoCatch(p) ==
    IF p.rc = 0
    THEN [raised |-> FALSE, value |-> <<0, Str(Strip(p.out)), Str(Strip(p.err))>>]
    ELSE [raised |-> TRUE, value |-> <<p.rc, None, Str(Strip(p.err))>>]

\* execute_command as written.
ExecuteCommand(p) ==
    IF p.rc = 0
    THEN [raised |-> FALSE, value |-> <<0, Str(Strip(p.out)), Str(Strip(p.err))>>]
    ELSE [raised |-> FALSE, value |-> <<p.rc, None, Str(Strip(p.err))>>]

\* subprocess.getoutput: stdout and stderr in one string, one trailing
\* newline removed, exit status dropped.
GetOutput(p) ==
    LET data == p.out \o p.err
    IN IF data # <<>> /\ data[Len(data)] = NL
       THEN SubSeq(data, 1, Len(data) - 1) ELSE data

\* ------------------------------------------------------------ the cluster
\* Output of a kubectl get that found its object, and kubectl's complaint on
\* stderr when a command fails.
FoundText == <<78, 65, 77, 69, 10>>
ErrorText == <<69, 114, 114, 111, 114, 10>>
\* A child process killed before it wrote anything.
Killed == Proc(137, <<>>, <<>>)
Failed == Proc(1, <<>>, ErrorText)

\* Bearer tokens the token controller may put into the secret, and the
\* contents the kube-root-ca.crt ConfigMap may have.
Tokens == { <<97>>, <<97, 98>>, <<97, 98, 99>> }
CaCerts == { <<>>, <<67, 65>> }

\* --output-file: absent, or a path.
OutputFiles == { None, Str(<<47, 107>>) }

VARIABLES
    cluster,        \* the cluster: which objects exist, the secret's token, the CA
    output_file,    \* args.output_file
    pc,             \* position of the script
    run,            \* number of the current invocation
    return_code,    \* create_kubeconfig: return_code
    token_decoded,  \* create_kubeconfig: token_decoded
    ca_cert,        \* create_kubeconfig: ca_cert
    config,         \* create_kubeconfig: config, <<>> before it is rendered
    file,           \* content of the output file, <<>> while it was never opened
    printed,        \* documents printed to stdout by this invocation
    exitCode,       \* exit status of the process, -1 while it runs
    exitReason,     \* diagnostic printed before exit(1)
    elapsed,        \* time.time() - start_time
    log,            \* the commands issued by this invocation, in order; a run of
                    \* consecutive token polls is recorded once
    validation,     \* exit statuses and outputs of the three validation lookups
    firstRaw,       \* raw token field of the first poll that read it non-empty
    fault,          \* some query command of some invocation failed for no reason of the cluster
    rotated,        \* the token was replaced after it was first set
    prevConfig      \* the document rendered by the previous invocation

vars == << cluster, output_file, pc, run, return_code, token_decoded, ca_cert,
           config, file, printed, exitCode, exitReason, elapsed,
           log, validation, firstRaw, fault, rotated, prevConfig >>

env == << cluster, fault, rotated >>
locals == << return_code, token_decoded, ca_cert, config, validation, firstRaw >>
clock == << elapsed >>
outputs == << file, printed >>

NoValidation == [rcs |-> <<>>, outs |-> <<>>]

Init ==
    /\ cluster \in [ns : BOOLEAN, sa : {FALSE}, role : {FALSE}, rb : {FALSE},
                    secret : {FALSE}, token : {<<>>}, ca : CaCerts]
    /\ output_file \in OutputFiles
    /\ pc = "get_ns"
    /\ run = 1
    /\ return_code = PyInt(-1)
    /\ token_decoded = None
    /\ ca_cert = <<>>
    /\ config = <<>>
    /\ file = <<>>
    /\ printed = <<>>
    /\ exitCode = -1
    /\ exitReason = "none"
    /\ elapsed = 0
    /\ log = <<>>
    /\ validation = NoValidation
    /\ firstRaw = <<>>
    /\ fault = FALSE
    /\ rotated = FALSE
    /\ prevConfig = <<>>

\* An exception nobody catches ends the process with a traceback and status 1;
\* otherwise control goes on to the next statement.
Proceed(r, nxt) ==
    IF r.raised
    THEN pc' = "crashed" /\ exitCode' = 1 /\ exitReason' = "traceback"
    ELSE pc' = nxt /\ UNCHANGED << exitCode, exitReason >>

\* exit(1) after a printed diagnostic.
Exit1(why) == pc' = "exit1" /\ exitCode' = 1 /\ exitReason' = why

\* kubectl create <kind>: succeeds only if the namespace exists and the object
\* does not; it may also be refused (RBAC, admission, a malformed verb list).
CreateOutcomes(kind) ==
    { [proc |-> Failed, cluster |-> cluster] } \cup
    IF cluster.ns /\ ~cluster[kind]
    THEN { [proc |-> Proc(0, FoundText, <<>>),
            cluster |-> [cluster EXCEPT ![kind] = TRUE]] }
    ELSE {}

\* create_kubeconfig: the namespace query and the branch on its result.
NamespaceGet ==
    /\ pc = "get_ns"
    /\ LET p == IF cluster.ns THEN Proc(0, FoundText, <<>>) ELSE Failed
           r == ExecuteCommand(p)
       IN /\ return_code' = PyTuple(r.value)
          /\ log' = Append(log, "get_ns")
          /\ Proceed(r, IF PyEq(PyTuple(r.value), PyInt(0))
                        THEN "create_sa" ELSE "create_ns")
    /\ UNCHANGED << env, output_file, run, token_decoded, ca_cert, config,
                    validation, firstRaw, clock, outputs, prevConfig >>

NamespaceCreate ==
    /\ pc = "create_ns"
    /\ \E o \in { [proc |-> Failed, cluster |-> cluster] } \cup
                IF ~cluster.ns
                THEN { [proc |-> Proc(0, FoundText, <<>>),
                        cluster |-> [cluster EXCEPT !.ns = TRUE]] }
                ELSE {} :
          /\ cluster' = o.cluster
          /\ log' = Append(log, "create_ns")
          /\ Proceed(ExecuteCommand(o.proc), "create_sa")
    /\ UNCHANGED << fault, rotated, output_file, run, locals, clock, outputs,
                    prevConfig >>

\* Variant: a creation that fails ends the process.
Create_Checked(here, kind, nxt) ==
    /\ pc = here
    /\ \E o \in CreateOutcomes(kind) :
          /\ cluster' = o.cluster
          /\ log' = Append(log, here)
          /\ IF o.proc.rc = 0
             THEN Proceed(ExecuteCommand(o.proc), nxt)
             ELSE Exit1("create")
    /\ UNCHANGED << fault, rotated, output_file, run, locals, clock, outputs,
                    prevConfig >>

\* One unconditional kubectl create whose result is discarded.
Create(here, kind, nxt) ==
    /\ pc = here
    /\ \E o \in CreateOutcomes(kind) :
          /\ cluster' = o.cluster
          /\ log' = Append(log, here)
          /\ Proceed(ExecuteCommand(o.proc), nxt)
    /\ UNCHANGED << fault, rotated, output_file, run, locals, clock, outputs,
                    prevConfig >>

CreateSa == Create("create_sa", "sa", "create_role")
\* Variant: the rolebinding creation left out.
CreateRole_SkipBinding == Create("create_role", "role", "apply_secret")
CreateRole == Create("create_role", "role", "create_rb")
CreateRoleBinding == Create("create_rb", "rb", "apply_secret")

\* kubectl apply of the Secret manifest: creates the secret, or leaves an
\* existing one (and its token) as it is; then wait_for_token starts its clock.
ApplySecret ==
    /\ pc = "apply_secret"
    /\ \E o \in { [proc |-> Failed, cluster |-> cluster] } \cup
                IF cluster.ns
                THEN { [proc |-> Proc(0, FoundText, <<>>),
                        cluster |-> [cluster EXCEPT !.secret = TRUE]] }
                ELSE {} :
          /\ cluster' = o.cluster
          /\ log' = Append(log, "apply_secret")
          /\ Proceed(ExecuteCommand(o.proc), "wait")
    /\ elapsed' = 0
    /\ UNCHANGED << fault, rotated, output_file, run, locals, outputs,
                    prevConfig >>

\* wait_for_token: base64.b64decode(stdout).decode("utf-8")
\* Variant: the field returned as read.
DecodeToken_Raw(stdout) == stdout

DecodeToken(stdout) == Utf8Decode(B64Decode(stdout))

\* What the jsonpath query for .data.token prints: the API server's base64 of
\* the token bytes, nothing while the controller has not set them yet.
TokenQuery ==
    IF cluster.secret THEN Proc(0, B64Encode(cluster.token), <<>>) ELSE Failed

\* wait_for_token: one turn of the loop whose condition holds: the poll, and
\* the return if it read something.
WaitPoll ==
    /\ pc = "wait"
    /\ elapsed < Timeout
    /\ \E d \in 0..MaxCmdDur, p \in {TokenQuery, Failed} :
          LET r == ExecuteCommand(p)
              stdout == r.value[2]
          IN /\ elapsed' = elapsed + d
             /\ fault' = (fault \/ p # TokenQuery)
             /\ firstRaw' = IF firstRaw = <<>> /\ p.rc = 0 THEN p.out ELSE firstRaw
             /\ log' = IF log[Len(log)] = "get_token" THEN log
                       ELSE Append(log, "get_token")
             /\ IF ~r.raised /\ Truthy(stdout)
                THEN /\ token_decoded' = Str(DecodeToken(stdout.val))
                     /\ Proceed(r, "validate")
                ELSE /\ token_decoded' = token_decoded
                     /\ Proceed(r, "sleep")
    /\ UNCHANGED << cluster, rotated, output_file, run, return_code, ca_cert,
                    config, validation, outputs, prevConfig >>

\* wait_for_token: time.sleep(1) and back to the loop condition.
\* Variant: a sleep of two intervals.
WaitSleep_Double ==
    /\ pc = "sleep"
    /\ elapsed' = elapsed + 2 * PollInterval
    /\ pc' = "wait"
    /\ UNCHANGED << env, output_file, run, locals, log, outputs, exitCode,
                    exitReason, prevConfig >>

WaitSleep ==
    /\ pc = "sleep"
    /\ elapsed' = elapsed + PollInterval
    /\ pc' = "wait"
    /\ UNCHANGED << env, output_file, run, locals, log, outputs, exitCode,
                    exitReason, prevConfig >>

\* wait_for_token: the loop condition fails: print and exit(1).
WaitTimeout ==
    /\ pc = "wait"
    /\ ~(elapsed < Timeout)
    /\ Exit1("timeout")
    /\ UNCHANGED << env, output_file, run, locals, clock, log, outputs, prevConfig >>

\* kubectl get <kind> <name>: a table on stdout, or NotFound on stderr.
KubectlGet(exists) == IF exists THEN Proc(0, FoundText, <<>>) ELSE Failed

\* validate_resources: the condition under which it returns.
\* Variant: only the service account tested.
ValidationPasses_SaOnly(sa_exists, role_exists, role_binding_exists) ==
    ~(sa_exists = <<>>)

ValidationPasses(sa_exists, role_exists, role_binding_exists) ==
    ~(sa_exists = <<>> \/ role_exists = <<>> \/ role_binding_exists = <<>>)

\* validate_resources: three lookups, then the check.
ValidateResources ==
    /\ pc = "validate"
    /\ \E p1 \in {KubectlGet(cluster.sa), Killed},
          p2 \in {KubectlGet(cluster.role), Killed},
          p3 \in {KubectlGet(cluster.rb), Killed} :
          LET sa_exists == GetOutput(p1)
              role_exists == GetOutput(p2)
              role_binding_exists == GetOutput(p3)
          IN /\ validation' = [rcs |-> << p1.rc, p2.rc, p3.rc >>,
                               outs |-> << sa_exists, role_exists, role_binding_exists >>]
             /\ fault' = (fault \/ Killed \in {p1, p2, p3})
             /\ log' = log \o << "get_sa", "get_role", "get_rb" >>
             /\ IF ValidationPasses(sa_exists, role_exists, role_binding_exists)
                THEN pc' = "get_ca" /\ UNCHANGED << exitCode, exitReason >>
                ELSE Exit1("validation")
    /\ UNCHANGED << cluster, rotated, output_file, run, return_code,
                    token_decoded, ca_cert, config, firstRaw, clock, outputs,
                    prevConfig >>

\* create_kubeconfig: the CA lookup and the check of its result.
\* Variant: no test of the certificate.
CaCheckPasses_Always(cert) == TRUE

CaCheckPasses(cert) == ~(cert = <<>>)

GetCaCert ==
    /\ pc = "get_ca"
    /\ \E p \in {Proc(0, cluster.ca, <<>>), Failed} :
          /\ ca_cert' = GetOutput(p)
          /\ fault' = (fault \/ p = Failed)
          /\ log' = Append(log, "get_ca")
          /\ IF CaCheckPasses(ca_cert')
             THEN pc' = "render" /\ UNCHANGED << exitCode, exitReason >>
             ELSE Exit1("ca")
    /\ UNCHANGED << cluster, rotated, output_file, run, return_code,
                    token_decoded, config, validation, firstRaw, clock, outputs,
                    prevConfig >>

\* The arguments every invocation is given.
ClusterUrl == "https://localhost:6443"
ClusterName == "test"
Namespace == "ns1"
Sa == "svc1"

\* The kubeconfig template, field by field.
Render(cert, token) ==
    [ certificate_authority_data |-> B64Encode(Utf8Encode(cert)),
      server |-> ClusterUrl,
      cluster_name |-> ClusterName,
      context_cluster |-> ClusterName,
      context_user |-> Sa,
      context_namespace |-> Namespace,
      context_name |-> ClusterName,
      current_context |-> ClusterName,
      user_name |-> Sa,
      token |-> token ]

\* create_kubeconfig: build the document, write it to the file or print it,
\* and fall off the end of the script.
RenderConfig ==
    /\ pc = "render"
    /\ config' = << Render(ca_cert, token_decoded.val) >>
    /\ IF Truthy(output_file)
       THEN file' = config' /\ printed' = printed
       ELSE printed' = Append(printed, config'[1]) /\ file' = file
    /\ log' = Append(log, "render")
    /\ pc' = "done"
    /\ exitCode' = 0
    /\ UNCHANGED << env, output_file, run, return_code, token_decoded, ca_cert,
                    validation, firstRaw, clock, exitReason, prevConfig >>

\* The script is invoked again, with the same arguments, against the cluster
\* the finished invocation left.
Rerun ==
    /\ pc = "done"
    /\ run < MaxRuns
    /\ run' = run + 1
    /\ prevConfig' = config
    /\ pc' = "get_ns"
    /\ return_code' = PyInt(-1)
    /\ token_decoded' = None
    /\ ca_cert' = <<>>
    /\ config' = <<>>
    /\ printed' = <<>>
    /\ exitCode' = -1
    /\ exitReason' = "none"
    /\ elapsed' = 0
    /\ log' = <<>>
    /\ validation' = NoValidation
    /\ firstRaw' = <<>>
    /\ UNCHANGED << env, output_file, file >>

\* Some invocation is running or is still to come.
Live == exitCode = -1 \/ (pc = "done" /\ run < MaxRuns)

\* The cluster's token controller fills in the token of a service-account-token
\* secret whose service account exists.
PopulateToken ==
    /\ Live
    /\ cluster.secret /\ cluster.sa /\ cluster.token = <<>>
    /\ \E t \in Tokens : cluster' = [cluster EXCEPT !.token = t]
    /\ UNCHANGED << fault, rotated, output_file, pc, run, locals, clock, log,
                    outputs, exitCode, exitReason, prevConfig >>

\* The token is replaced by another one.  A replacement shows only in what a
\* later invocation reads, so it is taken between two invocations.
RotateToken ==
    /\ pc = "done" /\ run < MaxRuns
    /\ cluster.token # <<>>
    /\ \E t \in Tokens \ {cluster.token} : cluster' = [cluster EXCEPT !.token = t]
    /\ rotated' = TRUE
    /\ UNCHANGED << fault, output_file, pc, run, locals, clock, log, outputs,
                    exitCode, exitReason, prevConfig >>

Next ==
    \/ NamespaceGet
    \/ NamespaceCreate
    \/ CreateSa
    \/ CreateRole
    \/ CreateRoleBinding
    \/ ApplySecret
    \/ WaitPoll
    \/ WaitSleep
    \/ WaitTimeout
    \/ ValidateResources
    \/ GetCaCert
    \/ RenderConfig
    \/ Rerun
    \/ PopulateToken
    \/ RotateToken

Spec == Init /\ [][Next]_vars

\* ------------------------------------------------------------ properties
InLog(c) == \E i \in 1..Len(log) : log[i] = c
IsPrefix(a, b) == Len(a) <= Len(b) /\ a = SubSeq(b, 1, Len(a))

\* C1: when the namespace query succeeds (exit status 0), no namespace-create
\* command is issued in that invocation.
C1_NoCreateWhenNamespaceExists ==
    (return_code.type = "tuple" /\ return_code.val[1] = 0)
        => (pc # "create_ns" /\ ~InLog("create_ns"))

\* C2: when one of the three validation lookups fails, the process has exited
\* with status 1, and no CA lookup was made and nothing was rendered.
C2_MissingResourceExits ==
    (\E i \in 1..Len(validation.rcs) : validation.rcs[i] # 0)
        => (pc = "exit1" /\ exitCode = 1 /\ ~InLog("get_ca") /\ config = <<>>)

\* C3: once a poll has read a non-empty token field, wait_for_token has
\* returned (the script is past the loop, so it issues no further poll) and the
\* token it returned is the base64-decoding of just what that poll read.
C3_TokenIsFirstNonEmptyReadDecoded ==
    firstRaw # <<>>
        => (/\ pc \notin {"wait", "sleep"}
            /\ ~token_decoded.none
            /\ token_decoded.val = Utf8Decode(B64Decode(firstRaw)))

\* A poll after at least one empty one read "YQ==" and "a" was returned.
C3_Witness ==
    /\ pc = "validate"
    /\ elapsed > 0
    /\ firstRaw = << 89, 81, 61, 61 >>
    /\ token_decoded = Str(<< 97 >>)

\* C4 as stated: when no poll ever reads a token, the process exits with
\* status 1 no later than timeout + poll-interval after the wait started.
C4_TimeoutWithinTimeoutPlusInterval ==
    exitReason = "timeout"
        => (exitCode = 1 /\ elapsed <= Timeout + PollInterval)

\* C4 amended: when no poll ever reads a token, the process exits with status 1
\* before timeout + poll-interval + the running time of one poll command has
\* passed; it sleeps one poll-interval after every poll that read nothing,
\* never returns a token and never reaches validation or rendering.
C4_TimeoutBoundedByLastPoll ==
    /\ [](exitReason = "timeout"
            => (/\ pc = "exit1" /\ exitCode = 1
                /\ elapsed >= Timeout
                /\ elapsed < Timeout + PollInterval + MaxCmdDur
                /\ token_decoded = None /\ firstRaw = <<>>
                /\ ~InLog("get_sa") /\ ~InLog("get_ca") /\ ~InLog("render")
                /\ config = <<>>))
    /\ [][/\ (pc = "sleep" /\ pc' # "sleep")
                => (pc' = "wait" /\ elapsed' = elapsed + PollInterval)
          /\ (pc = "wait" /\ pc' # "wait")
                => \/ pc' = "sleep" /\ token_decoded' = None
                   \/ pc' = "validate" /\ firstRaw' # <<>>
                   \/ pc' = "exit1" /\ ~(elapsed < Timeout)]_vars

\* The timeout exit happens later than timeout + poll-interval.
C4_Witness ==
    /\ pc = "exit1" /\ exitReason = "timeout"
    /\ elapsed > Timeout + PollInterval

AllFound == \A i \in 1..Len(validation.outs) : validation.outs[i] # <<>>

\* C5: after the three validation lookups, if one of them returned empty
\* output the process has exited non-zero without issuing the CA lookup, and
\* if none did the script went on to the CA lookup.
C5_EmptyLookupExitsBeforeCa ==
    validation.outs # <<>>
        => IF AllFound
           THEN exitReason # "validation" /\ (pc = "get_ca" \/ InLog("get_ca"))
           ELSE /\ pc = "exit1" /\ exitCode = 1 /\ exitReason = "validation"
                /\ ~InLog("get_ca") /\ ca_cert = <<>> /\ config = <<>>

\* The service account lookup printed its table, the role lookup printed
\* nothing, and the process exited.
C5_Witness ==
    /\ validation.outs # <<>>
    /\ validation.outs[1] # <<>>
    /\ validation.outs[2] = <<>>
    /\ pc = "exit1"

\* What the output file holds as long as this invocation has not written it.
FileBefore == IF Truthy(output_file) THEN prevConfig ELSE <<>>

\* C6: when the CA lookup returned nothing the process has exited with status
\* 1 without rendering, printing or touching the output file; a document is
\* written or printed only by an invocation that ends with status 0.
C6_EmptyCaExitsBeforeOutput ==
    /\ (InLog("get_ca") /\ ca_cert = <<>>)
          => (/\ pc = "exit1" /\ exitCode = 1 /\ exitReason = "ca"
              /\ config = <<>> /\ printed = <<>> /\ file = FileBefore)
    /\ (config # <<>> \/ printed # <<>> \/ file # FileBefore)
          => (pc = "done" /\ exitCode = 0)

\* An invocation told to write a file got an empty CA and exited.
C6_Witness ==
    /\ InLog("get_ca") /\ ca_cert = <<>>
    /\ Truthy(output_file)
    /\ pc = "exit1"

\* C7: whenever the kubeconfig has been rendered, the token returned by the
\* wait and the CA data returned by the ConfigMap lookup are both non-empty,
\* and so are the fields of the document made from them.
C7_RenderedOnlyWithTokenAndCa ==
    config # <<>>
        => (/\ Truthy(token_decoded)
            /\ ca_cert # <<>>
            /\ config[1].token # <<>>
            /\ config[1].certificate_authority_data # <<>>)

\* A document was rendered and written or printed.
C7_Witness ==
    /\ config # <<>>
    /\ pc = "done"
    /\ (file = config \/ printed = config)

\* C8: an invocation that follows a completed one, with the same arguments,
\* no replaced token and no query command failing for reasons outside the
\* cluster's state, does not end in failure, and when it completes its
\* document equals the one of the invocation before.
C8_RerunYieldsSameDocument ==
    (run >= 2 /\ ~fault /\ ~rotated)
        => (/\ pc \notin {"exit1", "crashed"}
            /\ exitCode \in {-1, 0}
            /\ pc = "done" => (config # <<>> /\ config = prevConfig))

\* The second invocation issued its (failing) creations and completed with the
\* same document.
C8_Witness ==
    /\ run = 2 /\ ~fault /\ ~rotated
    /\ pc = "done"
    /\ InLog("create_sa")
    /\ config # <<>> /\ config = prevConfig

Provision == << "create_sa", "create_role", "create_rb", "apply_secret" >>
Retrieve == << "get_token", "get_sa", "get_role", "get_rb", "get_ca", "render" >>

\* C9: the commands are issued in one fixed order, nothing skipped or
\* reordered; validation only after a poll that read a token; the CA lookup
\* only after validation passed; rendering only after all of them.
C9_FixedCommandOrder ==
    /\ \/ IsPrefix(log, << "get_ns", "create_ns" >> \o Provision \o Retrieve)
       \/ IsPrefix(log, << "get_ns" >> \o Provision \o Retrieve)
    /\ InLog("get_sa") => (firstRaw # <<>> /\ Truthy(token_decoded))
    /\ InLog("get_ca") => (validation.outs # <<>> /\ AllFound)
    /\ pc = "done" => (InLog("render") /\ Len(log) >= 11)
    /\ pc \in {"wait", "sleep"} => log[Len(log)] \in {"apply_secret", "get_token"}

\* A complete invocation, every command issued.
C9_Witness ==
    /\ pc = "done"
    /\ log = << "get_ns", "create_ns" >> \o Provision \o Retrieve

NextCommand ==
    [ create_ns |-> "create_sa", create_sa |-> "create_role",
      create_role |-> "create_rb", create_rb |-> "apply_secret",
      apply_secret |-> "wait" ]

\* C10: no creation command ends the invocation or changes what comes next:
\* the process never dies of an exception, and the step after a creation
\* command is the same whatever the command's exit status was.
C10_CreationFailureIgnored ==
    /\ [](pc # "crashed")
    /\ [][(pc \in DOMAIN NextCommand /\ pc' # pc)
            => (pc' = NextCommand[pc] /\ exitCode' = -1)]_vars

\* With the namespace there, no service account, role or secret came to be,
\* and the script is polling all the same.
C10_Witness ==
    /\ pc = "wait"
    /\ cluster.ns /\ ~cluster.sa /\ ~cluster.role /\ ~cluster.secret

====
